---- MODULE Spec2Model ----
(***************************************************************************)
(* A model of bin/visualize_tree.py: plot_timetree loads a tree, places    *)
(* every node in absolute time, lays the tree out vertically, and draws    *)
(* branches, connectors, tip labels and posterior support markers.         *)
(*                                                                         *)
(* A tree object is a record [n, parent, length, traits]: the nodes are    *)
(* 1..n in the order of tree.Objects, node 1 is tree.root, parent[k] is    *)
(* the index of k.parent (0: no parent), k.children lists the nodes whose  *)
(* parent is k in the order of tree.Objects, length[k] is k.length and     *)
(* traits[k] is k.traits['posterior'] in units of 1/10000 (NoPosterior:    *)
(* the trait is absent).  A leaf's name is its index.                      *)
(*                                                                         *)
(* The calls into the tree library are modelled by what they do to the     *)
(* tree object: traverse_tree sets each node's height (root 0, child =     *)
(* parent + length), the tree height (the largest leaf height) and returns *)
(* the leaves in pre-order; setAbsoluteTime(date) sets absoluteTime =      *)
(* date - treeHeight + height; drawTree gives the i-th leaf of the         *)
(* traversal (i from 0) y = (#leaves - i) - 1/2 and every internal node    *)
(* the mean y of its children.  treeStats()['height'] is read as the tree  *)
(* height, as line 48 prints it.                                           *)
(***************************************************************************)
EXTENDS Integers, Sequences, FiniteSets, TLC

VARIABLES
    file,          \* the input: which loader accepts it, and the tree it holds
    pc,            \* position in plot_timetree
    tried,         \* the loaders called so far, in order
    tree,          \* the loaded tree object (NoTree before loading)
    height,        \* k.height, as left by the last traverse_tree
    treeHeight,    \* tree.treeHeight
    absoluteTime,  \* k.absoluteTime (<<>>: not set)
    stats,         \* the statistics printed at lines 46-49 (<<>>: none)
    y,             \* k.y in units of 1/yUnit(tree) (<<>>: not set)
    segments,      \* x_coords / y_coords, one record per appended pair
    labels,        \* the ax.text calls of lines 86-88
    markers,       \* the ax.plot calls of lines 99-103
    saved,         \* the formats written by plt.savefig
    runs           \* how often the two layout passes were run again

vars == <<file, pc, tried, tree, height, treeHeight, absoluteTime, stats, y,
          segments, labels, markers, saved, runs>>

----
\* Bounds and input values.

\* Largest number of nodes of an enumerated input tree.
MaxNodes == 4

\* How often the layout passes are run again on a finished tree.
MaxRuns == 2

\* posterior = None (line 93).
NoPosterior == -1

\* Branch lengths of the enumerated trees (0 also stands for a missing length).
LenValues == {-1, 0, 1}

\* The posterior annotations tried, in 1/10000: absent, 0, 0.74, 0.95, 0.9499,
\* 0.75.
PostSeq == <<NoPosterior, 0, 7400, 9500, 9499, 7500>>

\* formats=['png', 'svg'] (line 25).
formats == <<"png", "svg">>

NoTree == [n |-> 0, parent |-> <<>>, length |-> <<>>, traits |-> <<>>]

----
\* Arithmetic helpers.

Max(S) == CHOOSE x \in S : \A z \in S : z <= x

Min(S) == CHOOSE x \in S : \A z \in S : x <= z

RECURSIVE SumSeq(_)
SumSeq(s) == IF s = <<>> THEN 0 ELSE Head(s) + SumSeq(Tail(s))

RECURSIVE Flatten(_)
Flatten(ss) == IF ss = <<>> THEN <<>> ELSE Head(ss) \o Flatten(Tail(ss))

Range(s) == {s[i] : i \in DOMAIN s}

----
\* The tree object.

Objects(t) == [i \in 1..t.n |-> i]

children(t, k) == SelectSeq(Objects(t), LAMBDA c : t.parent[c] = k)

is_leaf(t, k) == children(t, k) = <<>>

getExternal(t) == SelectSeq(Objects(t), LAMBDA k : is_leaf(t, k))

getInternal(t) == SelectSeq(Objects(t), LAMBDA k : ~is_leaf(t, k))

\* The nodes in pre-order from k, children in the order of k.children.
RECURSIVE PreOrder(_, _)
PreOrder(t, k) ==
    LET cs == children(t, k)
    IN <<k>> \o Flatten([i \in 1..Len(cs) |-> PreOrder(t, cs[i])])

\* A slip in traverse_tree: the parent's height is not added.
nodeHeightOwnLength(t, k) == IF t.parent[k] = 0 THEN 0 ELSE t.length[k]

\* k.height: 0 for the node without parent, else parent's height + k.length.
RECURSIVE nodeHeight(_, _)
nodeHeight(t, k) ==
    IF t.parent[k] = 0 THEN 0
    ELSE t.length[k] + nodeHeight(t, t.parent[k])

\* A slip in traverse_tree: the leaves are returned as tree.Objects lists
\* them, not as the walk meets them.
traverse_treeStoredOrder(t) ==
    LET h == [k \in 1..t.n |-> nodeHeight(t, k)]
        order == getExternal(t)
    IN [height |-> h,
        treeHeight |-> Max({h[k] : k \in Range(order)}),
        order |-> order]

\* tree.traverse_tree(): the heights, the tree height and the leaves met.
traverse_tree(t) ==
    LET h == [k \in 1..t.n |-> nodeHeight(t, k)]
        order == SelectSeq(PreOrder(t, 1), LAMBDA k : is_leaf(t, k))
    IN [height |-> h,
        treeHeight |-> Max({h[k] : k \in Range(order)}),
        order |-> order]

\* tree.treeStats(): traverses the tree and reports its height.
treeStats(t) ==
    LET tr == traverse_tree(t)
    IN [height |-> tr.treeHeight, heights |-> tr.height]

\* A slip in setAbsoluteTime: time counted back from the date.
setAbsoluteTimeBackwards(t, date, th, h) == [k \in 1..t.n |-> date - h[k]]

\* tree.setAbsoluteTime(date) on heights h and tree height th.
setAbsoluteTime(t, date, th, h) == [k \in 1..t.n |-> date - th + h[k]]

\* The number of y units in one leaf slot: y is exact in these units.
RECURSIVE ProdSeq(_)
ProdSeq(s) == IF s = <<>> THEN 1 ELSE Head(s) * ProdSeq(Tail(s))

yUnit(t) ==
    LET ins == getInternal(t)
    IN 2 * ProdSeq([i \in 1..Len(ins) |-> Len(children(t, ins[i]))])

\* The position (from 1) of x in the sequence s.
IndexOf(s, x) == CHOOSE i \in DOMAIN s : s[i] = x

\* A slip in drawTree: the slots follow tree.Objects, not the traversal.
leafYByObjects(t, order, k) ==
    (yUnit(t) \div 2)
        * (2 * (Len(order) - IndexOf(getExternal(t), k)) + 1)

\* drawTree's y of a leaf: the leaf at position i (from 1) of `order` gets
\* (#leaves - i) + 1/2 slots.
leafY(t, order, k) ==
    (yUnit(t) \div 2) * (2 * (Len(order) - IndexOf(order, k)) + 1)

\* drawTree's y of an internal node: the mean of its children's y.
nodeY(cys) == SumSeq(cys) \div Len(cys)

\* A slip in drawTree: an internal node at the mean of its descendant leaves.
drawYLeafMean(t, order, k) ==
    LET ls == SelectSeq(PreOrder(t, k), LAMBDA c : is_leaf(t, c))
    IN nodeY([i \in 1..Len(ls) |-> leafY(t, order, ls[i])])

RECURSIVE drawY(_, _, _)
drawY(t, order, k) ==
    IF is_leaf(t, k) THEN leafY(t, order, k)
    ELSE LET cs == children(t, k)
         IN nodeY([i \in 1..Len(cs) |-> drawY(t, order, cs[i])])

\* A slip in drawTree: the slots go on from the span of the previous drawing.
drawTreeKeepsSpan(t, order, yOld) ==
    [k \in 1..t.n |->
        drawY(t, order, k) + (IF yOld = <<>> THEN 0 ELSE Max(Range(yOld)))]

\* tree.drawTree(): coordinates are reset (yOld is dropped), then every node
\* is placed.
drawTree(t, order, yOld) == [k \in 1..t.n |-> drawY(t, order, k)]

----
\* The input trees.

ParentMaps(n) ==
    {p \in [1..n -> 0..(n - 1)] :
        /\ p[1] = 0
        /\ \A i \in 2..n : p[i] \in 1..(i - 1)}

LengthMaps(n) == {l \in [1..n -> LenValues] : l[1] = 0}

\* The annotation maps tried: the values of PostSeq laid over the nodes in
\* turn, from every starting offset.
TraitMaps(n) ==
    {[k \in 1..n |-> PostSeq[((k + o) % Len(PostSeq)) + 1]] :
        o \in 1..Len(PostSeq)}

BoundedTrees ==
    UNION {{[n |-> n, parent |-> p, length |-> l, traits |-> tr] :
              p \in ParentMaps(n), l \in LengthMaps(n), tr \in TraitMaps(n)} :
           n \in 1..MaxNodes}

\* ((A:1,B:2):1,C:4):0 with posterior 0.95 on the root and on parent-of-(A,B):
\* node 1 the root, 2 parent-of-(A,B), 3 = A, 4 = B, 5 = C.
ExampleTree ==
    [n |-> 5, parent |-> <<0, 1, 2, 2, 1>>, length |-> <<0, 1, 1, 2, 4>>,
     traits |-> <<9500, 9500, NoPosterior, NoPosterior, NoPosterior>>]

\* Every topology of one node more, with unit branch lengths and no
\* annotation: the smallest trees in which a clade of two leaves can be split
\* by a third leaf.
UnitTrees ==
    {[n |-> MaxNodes + 1, parent |-> p,
      length |-> [k \in 1..(MaxNodes + 1) |-> IF k = 1 THEN 0 ELSE 1],
      traits |-> [k \in 1..(MaxNodes + 1) |-> NoPosterior]] :
        p \in ParentMaps(MaxNodes + 1)}

Trees == BoundedTrees \cup UnitTrees \cup {ExampleTree}

Files ==
    {[fmt |-> "garbage", tree |-> NoTree]}
    \cup {[fmt |-> f, tree |-> t] : f \in {"nexus", "newick"}, t \in Trees}

----
\* plot_timetree.

Init ==
    /\ file \in Files
    /\ pc = "start"
    /\ tried = <<>>
    /\ tree = NoTree
    /\ height = <<>>
    /\ treeHeight = 0
    /\ absoluteTime = <<>>
    /\ stats = <<>>
    /\ y = <<>>
    /\ segments = <<>>
    /\ labels = <<>>
    /\ markers = <<>>
    /\ saved = <<>>
    /\ runs = 0

\* A slip in the loading: the Newick loader is tried whatever loadNexus did.
LoadNexusFallsThrough ==
    /\ pc = "start"
    /\ tried' = Append(tried, "loadNexus")
    /\ tree' = tree
    /\ pc' = "nexus_failed"
    /\ UNCHANGED <<runs, file, height, treeHeight, absoluteTime, stats, y,
                   segments, labels, markers, saved>>

\* Line 33: bt.loadNexus; any failure falls through to the Newick loader.
LoadNexus ==
    /\ pc = "start"
    /\ tried' = Append(tried, "loadNexus")
    /\ IF file.fmt = "nexus"
       THEN tree' = file.tree /\ pc' = "loaded"
       ELSE tree' = tree /\ pc' = "nexus_failed"
    /\ UNCHANGED <<runs, file, height, treeHeight, absoluteTime, stats, y,
                   segments, labels, markers, saved>>

\* Lines 35-39: bt.loadNewick; on failure the error is printed and the
\* process exits with status 1.
LoadNewick ==
    /\ pc = "nexus_failed"
    /\ tried' = Append(tried, "loadNewick")
    /\ IF file.fmt = "newick"
       THEN tree' = file.tree /\ pc' = "loaded"
       ELSE tree' = tree /\ pc' = "exit1"
    /\ UNCHANGED <<runs, file, height, treeHeight, absoluteTime, stats, y,
                   segments, labels, markers, saved>>

\* Line 42: tree.setAbsoluteTime(tree.treeStats()['height']).
SetAbsoluteTime ==
    /\ pc = "loaded"
    /\ LET st == treeStats(tree)
       IN /\ height' = st.heights
          /\ treeHeight' = st.height
          /\ absoluteTime' =
                 setAbsoluteTime(tree, st.height, st.height, st.heights)
    /\ pc' = "stats"
    /\ UNCHANGED <<runs, file, tried, tree, stats, y, segments, labels, markers,
                   saved>>

\* Lines 45-49: the statistics printed.
Statistics ==
    /\ pc = "stats"
    /\ LET st == treeStats(tree)
       IN /\ height' = st.heights
          /\ treeHeight' = st.height
          /\ stats' = [Tips |-> Len(getExternal(tree)),
                       Height |-> st.height,
                       TMRCA |-> absoluteTime[1]]
    /\ pc' = "layout"
    /\ UNCHANGED <<runs, file, tried, tree, absoluteTime, y, segments, labels,
                   markers, saved>>

\* Lines 55-56: tree.traverse_tree(); tree.drawTree().
Layout ==
    /\ pc = "layout"
    /\ LET tr == traverse_tree(tree)
       IN /\ height' = tr.height
          /\ treeHeight' = tr.treeHeight
          /\ y' = drawTree(tree, tr.order, y)
    /\ pc' = "branches"
    /\ UNCHANGED <<runs, file, tried, tree, absoluteTime, stats, segments, labels,
                   markers, saved>>

\* A slip at line 69: the branch starts at the node's own time.
branchOfOwnTime(t, at, ys, k) ==
    [kind |-> "branch", node |-> k,
     x |-> <<at[k], at[k]>>, y |-> <<ys[k], ys[k]>>]

\* Lines 69-70: the horizontal line of node k.
branchOf(t, at, ys, k) ==
    [kind |-> "branch", node |-> k,
     x |-> <<at[t.parent[k]], at[k]>>, y |-> <<ys[k], ys[k]>>]

\* A slip at line 76: the vertical line is appended for a single child too.
connectorOfAnyChildCount(t, at, ys, p) ==
    LET cs == children(t, p)
        child_ys == [i \in 1..Len(cs) |-> ys[cs[i]]]
    IN IF Len(child_ys) > 0
       THEN <<[kind |-> "connector", node |-> p,
               x |-> <<at[p], at[p]>>,
               y |-> <<Min(Range(child_ys)), Max(Range(child_ys))>>]>>
       ELSE <<>>

\* Lines 75-78: the vertical line of parent p, appended if it has more than
\* one child.
connectorOf(t, at, ys, p) ==
    LET cs == children(t, p)
        child_ys == [i \in 1..Len(cs) |-> ys[cs[i]]]
    IN IF Len(child_ys) > 1
       THEN <<[kind |-> "connector", node |-> p,
               x |-> <<at[p], at[p]>>,
               y |-> <<Min(Range(child_ys)), Max(Range(child_ys))>>]>>
       ELSE <<>>

\* Lines 67-78: what one iteration of the loop appends for node k.
appendedFor(t, at, ys, k) ==
    IF t.parent[k] # 0
    THEN <<branchOf(t, at, ys, k)>>
         \o (IF children(t, t.parent[k])[1] = k
             THEN connectorOf(t, at, ys, t.parent[k])
             ELSE <<>>)
    ELSE <<>>

\* Lines 62-82: the loop over tree.Objects, then every pair is plotted.
DrawBranches ==
    /\ pc = "branches"
    /\ segments' = Flatten([i \in 1..tree.n |->
                       appendedFor(tree, absoluteTime, y, Objects(tree)[i])])
    /\ pc' = "tips"
    /\ UNCHANGED <<runs, file, tried, tree, height, treeHeight, absoluteTime, stats,
                   y, labels, markers, saved>>

\* sorted(s, key=lambda x: x.y): ascending, equal keys keep their order.
RECURSIVE sortedByY(_, _)
sortedByY(s, ys) ==
    IF s = <<>> THEN <<>>
    ELSE LET lo == Min({ys[s[i]] : i \in DOMAIN s})
             first == CHOOSE i \in DOMAIN s :
                         /\ ys[s[i]] = lo
                         /\ \A j \in DOMAIN s : ys[s[j]] = lo => i <= j
         IN <<s[first]>>
            \o sortedByY([j \in 1..(Len(s) - 1) |->
                             IF j < first THEN s[j] ELSE s[j + 1]], ys)

\* Lines 85-88: one label per tip.
TipLabels ==
    /\ pc = "tips"
    /\ LET tips == sortedByY(getExternal(tree), y)
       IN labels' = [i \in 1..Len(tips) |->
                        [x |-> absoluteTime[tips[i]], y |-> y[tips[i]],
                         text |-> tips[i]]]
    /\ pc' = "support"
    /\ UNCHANGED <<runs, file, tried, tree, height, treeHeight, absoluteTime, stats,
                   y, segments, markers, saved>>

\* A slip at line 98: > for >=.
markerOfStrict(t, at, ys, k) ==
    LET posterior == t.traits[k]
        truthy == posterior # NoPosterior /\ posterior # 0
    IN IF truthy /\ posterior > 9500
       THEN <<[node |-> k, x |-> at[k], y |-> ys[k], tier |-> "high"]>>
       ELSE IF truthy /\ posterior >= 7500
       THEN <<[node |-> k, x |-> at[k], y |-> ys[k], tier |-> "medium"]>>
       ELSE <<>>

\* Lines 93-103: the marker of one internal node, if any.  `posterior and`
\* is false for None and for 0.
markerOf(t, at, ys, k) ==
    LET posterior == t.traits[k]
        truthy == posterior # NoPosterior /\ posterior # 0
    IN IF truthy /\ posterior >= 9500
       THEN <<[node |-> k, x |-> at[k], y |-> ys[k], tier |-> "high"]>>
       ELSE IF truthy /\ posterior >= 7500
       THEN <<[node |-> k, x |-> at[k], y |-> ys[k], tier |-> "medium"]>>
       ELSE <<>>

\* Lines 91-103: the loop over tree.getInternal().
SupportMarkers ==
    /\ pc = "support"
    /\ LET ins == getInternal(tree)
       IN markers' = Flatten([i \in 1..Len(ins) |->
                          markerOf(tree, absoluteTime, y, ins[i])])
    /\ pc' = "save"
    /\ UNCHANGED <<runs, file, tried, tree, height, treeHeight, absoluteTime, stats,
                   y, segments, labels, saved>>

\* Lines 132-137: one file per format.
SaveFigures ==
    /\ pc = "save"
    /\ saved' = formats
    /\ pc' = "done"
    /\ UNCHANGED <<runs, file, tried, tree, height, treeHeight, absoluteTime, stats,
                   y, segments, labels, markers>>

Next ==
    \/ LoadNexus
    \/ LoadNewick
    \/ SetAbsoluteTime
    \/ Statistics
    \/ Layout
    \/ DrawBranches
    \/ TipLabels
    \/ SupportMarkers
    \/ SaveFigures

Spec == Init /\ [][Next]_vars

\* Lines 42 and 55-56 applied once more to the tree object as it stands:
\* setAbsoluteTime on the heights of a fresh treeStats, then traverse_tree and
\* drawTree.
Rerun ==
    /\ pc = "done"
    /\ runs < MaxRuns
    /\ LET st == treeStats(tree)
           tr == traverse_tree(tree)
       IN /\ height' = tr.height
          /\ treeHeight' = tr.treeHeight
          /\ absoluteTime' =
                 setAbsoluteTime(tree, st.height, st.height, st.heights)
          /\ y' = drawTree(tree, tr.order, y)
    /\ runs' = runs + 1
    /\ UNCHANGED <<file, pc, tried, tree, stats, segments, labels, markers,
                   saved>>

NextRerun == Next \/ Rerun

SpecRerun == Init /\ [][NextRerun]_vars

----
\* The quantities the properties are stated in.

\* The nodes from k up to, but without, the root.
RECURSIVE PathToRoot(_, _)
PathToRoot(t, k) ==
    IF t.parent[k] = 0 THEN <<>> ELSE <<k>> \o PathToRoot(t, t.parent[k])

\* Cumulative distance of k from the root: the lengths along its path.
CumDist(t, k) ==
    LET path == PathToRoot(t, k)
    IN SumSeq([i \in 1..Len(path) |-> t.length[path[i]]])

LeafSet(t) == {k \in 1..t.n : \A c \in 1..t.n : t.parent[c] # k}

InternalSet(t) == (1..t.n) \ LeafSet(t)

ChildSet(t, k) == {c \in 1..t.n : t.parent[c] = k}

\* The largest cumulative root-to-leaf distance.
tree_height(t) == Max({CumDist(t, l) : l \in LeafSet(t)})

\* No branch length is negative.
Valid(t) == \A k \in 1..t.n : t.length[k] >= 0

\* The leaves in the order a pre-order walk of the children meets them.
LeafOrder(t) == SelectSeq(PreOrder(t, 1), LAMBDA k : k \in LeafSet(t))

Placed == pc \in {"stats", "layout", "branches", "tips", "support", "save", "done"}

LaidOut == pc \in {"branches", "tips", "support", "save", "done"}

Drawn == pc \in {"tips", "support", "save", "done"}

Labelled == pc \in {"support", "save", "done"}

Marked == pc \in {"save", "done"}

Count(s, Test(_)) == Len(SelectSeq(s, Test))

----
\* C1: for every valid tree, once absolute times are set the root's
\* absoluteTime is 0 and the largest absoluteTime over the leaves is the tree
\* height, the largest cumulative root-to-leaf distance.
C1_RootAtZeroTipsReachHeight ==
    (Placed /\ Valid(tree)) =>
        /\ absoluteTime[1] = 0
        /\ Max({absoluteTime[l] : l \in LeafSet(tree)}) = tree_height(tree)

\* A valid tree of several nodes and positive height has been placed in time.
C1_Witness ==
    /\ Placed
    /\ Valid(tree)
    /\ tree.n >= 3
    /\ tree_height(tree) = 2

\* C2 as stated: every node's absoluteTime is the tree height minus its
\* cumulative distance from the root, and in ((A:1,B:2):1,C:4):0 the tree
\* height is 4 and C, A, B are at 0, 2, 1.
C2_TimeIsHeightMinusDistance ==
    (Placed /\ Valid(tree)) =>
        /\ \A k \in 1..tree.n :
              absoluteTime[k] = tree_height(tree) - CumDist(tree, k)
        /\ tree = ExampleTree =>
              /\ treeHeight = 4
              /\ absoluteTime[5] = 0
              /\ absoluteTime[3] = 2
              /\ absoluteTime[4] = 1

\* C2 amended: every node's absoluteTime is its cumulative distance from the
\* root (root 0, the most recent tip at the tree height), and in
\* ((A:1,B:2):1,C:4):0 the tree height is 4 and C, A, B are at 4, 2, 3.
C2_TimeIsDistanceFromRoot ==
    Placed =>
        /\ \A k \in 1..tree.n : absoluteTime[k] = CumDist(tree, k)
        /\ treeHeight = tree_height(tree)
        /\ tree = ExampleTree =>
              /\ treeHeight = 4
              /\ absoluteTime[5] = 4
              /\ absoluteTime[3] = 2
              /\ absoluteTime[4] = 3

\* The scenario tree has just been placed in time.
C2_Witness == pc = "stats" /\ tree = ExampleTree

\* The y of the leaves in the order a pre-order walk meets them.
LeafYs == [i \in 1..Len(LeafOrder(tree)) |-> y[LeafOrder(tree)[i]]]

\* C3 as stated: for every valid tree there are as many tip labels as leaves,
\* and the y of the leaves, read in pre-order of the children, strictly
\* increase.
C3_LeafSlotsIncrease ==
    (Labelled /\ Valid(tree)) =>
        /\ Len(labels) = Cardinality(LeafSet(tree))
        /\ \A i, j \in DOMAIN LeafYs : i < j => LeafYs[i] < LeafYs[j]

\* C3 amended: for every valid tree there is one tip label per leaf, and the
\* y of the leaves, read in pre-order of the children, strictly decrease (the
\* first leaf met takes the highest slot), so no two leaves share a y.
C3_LeafSlotsDecrease ==
    (Labelled /\ Valid(tree)) =>
        /\ Len(labels) = Cardinality(LeafSet(tree))
        /\ \A l \in LeafSet(tree) :
              Count(labels, LAMBDA b : b.text = l /\ b.y = y[l]
                                       /\ b.x = absoluteTime[l]) = 1
        /\ \A i, j \in DOMAIN LeafYs : i < j => LeafYs[i] > LeafYs[j]

\* A valid tree whose pre-order meets its leaves in another order than
\* tree.Objects lists them has been labelled.
C3_Witness ==
    /\ Labelled
    /\ Valid(tree)
    /\ Len(labels) >= 2
    /\ LeafOrder(tree) # getExternal(tree)

\* What the connector of internal node k must be.
ConnectorFor(k) ==
    [kind |-> "connector", node |-> k,
     x |-> <<absoluteTime[k], absoluteTime[k]>>,
     y |-> <<Min({y[c] : c \in ChildSet(tree, k)}),
             Max({y[c] : c \in ChildSet(tree, k)})>>]

\* C4: an internal node with one child gets no connector, an internal node
\* with two or more children (the root too) exactly one, at x = its
\* absoluteTime from the least to the greatest y of its children; the
\* connectors appended at each first child are those of one per such node.
C4_OneConnectorPerFork ==
    Drawn =>
        /\ \A k \in InternalSet(tree) :
              Count(segments, LAMBDA g : g.kind = "connector" /\ g.node = k)
                 = IF Cardinality(ChildSet(tree, k)) >= 2 THEN 1 ELSE 0
        /\ {g \in Range(segments) : g.kind = "connector"}
              = {ConnectorFor(k) : k \in {i \in InternalSet(tree) :
                                            Cardinality(ChildSet(tree, i)) >= 2}}

\* A drawn tree with a forking root and an internal node with one child.
C4_Witness ==
    /\ Drawn
    /\ Cardinality(ChildSet(tree, 1)) >= 2
    /\ \E k \in InternalSet(tree) : Cardinality(ChildSet(tree, k)) = 1

\* The markers drawn for node k.
MarkersOf(k) == SelectSeq(markers, LAMBDA m : m.node = k)

\* C5: an internal node with posterior >= 0.95 gets exactly one high marker,
\* with 0.75 <= posterior < 0.95 exactly one medium marker, with a lower or no
\* posterior none; a leaf gets none whatever its annotation.
C5_MarkerByPosterior ==
    Marked =>
        \A k \in 1..tree.n :
            LET p == tree.traits[k]
            IN /\ (k \in InternalSet(tree) /\ p >= 9500) =>
                      (Len(MarkersOf(k)) = 1 /\ MarkersOf(k)[1].tier = "high")
               /\ (k \in InternalSet(tree) /\ p >= 7500 /\ p < 9500) =>
                      (Len(MarkersOf(k)) = 1 /\ MarkersOf(k)[1].tier = "medium")
               /\ (k \in InternalSet(tree) /\ p < 7500) => MarkersOf(k) = <<>>
               /\ k \in LeafSet(tree) => MarkersOf(k) = <<>>
               /\ \A i \in DOMAIN MarkersOf(k) :
                      /\ MarkersOf(k)[i].x = absoluteTime[k]
                      /\ MarkersOf(k)[i].y = y[k]

\* Internal nodes with posterior 0.74, 0.95 and 0.9499 and a leaf annotated
\* 0.75 have been through the marker loop.
C5_Witness ==
    /\ Marked
    /\ \E a, b, c \in InternalSet(tree) :
          /\ tree.traits[a] = 7400
          /\ tree.traits[b] = 9500
          /\ tree.traits[c] = 9499
    /\ \E l \in LeafSet(tree) : tree.traits[l] = 7500

\* C6: every node with a parent gets exactly one branch, from the parent's
\* absoluteTime to its own at its own y, and the root gets none; a tree of
\* one node has height 0, one tip label, no branch and no connector.
C6_OneBranchPerChild ==
    Drawn =>
        /\ \A k \in 1..tree.n :
              LET mine == SelectSeq(segments,
                              LAMBDA g : g.kind = "branch" /\ g.node = k)
              IN IF tree.parent[k] = 0 THEN mine = <<>>
                 ELSE /\ Len(mine) = 1
                      /\ mine[1].x = <<absoluteTime[tree.parent[k]],
                                       absoluteTime[k]>>
                      /\ mine[1].y = <<y[k], y[k]>>
        /\ tree.n = 1 =>
              /\ treeHeight = 0
              /\ segments = <<>>
              /\ Labelled => Len(labels) = 1

\* A tree with a grandchild of the root has been drawn.
C6_Witness ==
    /\ Drawn
    /\ tree.n >= 4
    /\ \E k \in 1..tree.n : tree.parent[k] > 1
    /\ Len(segments) >= 4

\* C10: after the layout every internal node's y is the mean of the y of its
\* immediate children; in ((A:1,B:2):1,C:4):0 parent-of-(A,B) is midway
\* between A and B.
C10_MidpointOfChildren ==
    LaidOut =>
        /\ \A k \in InternalSet(tree) :
              y[k] * Cardinality(ChildSet(tree, k))
                 = SumSeq([i \in 1..Len(children(tree, k)) |->
                              y[children(tree, k)[i]]])
        /\ tree = ExampleTree => 2 * y[2] = y[3] + y[4]

\* The scenario tree has just been laid out; its root is not at the mean of
\* its three leaves.
C10_Witness ==
    /\ pc = "branches"
    /\ tree = ExampleTree
    /\ 3 * y[1] # y[3] + y[4] + y[5]

\* Nothing has been computed or drawn.
NothingProduced ==
    /\ absoluteTime = <<>>
    /\ y = <<>>
    /\ segments = <<>>
    /\ labels = <<>>
    /\ markers = <<>>
    /\ saved = <<>>

\* C7: the loaders are called in the order Nexus, Newick; the first that
\* succeeds supplies the tree and none is called after it; when both fail
\* the run ends there, before any pass, with nothing computed, drawn or
\* saved.
C7_FirstLoaderWins ==
    /\ tried \in {<<>>, <<"loadNexus">>, <<"loadNexus", "loadNewick">>}
    /\ file.fmt = "nexus" => Len(tried) <= 1
    /\ pc \notin {"start", "nexus_failed", "exit1"} =>
          /\ tree = file.tree
          /\ tree # NoTree
          /\ tried = IF file.fmt = "nexus" THEN <<"loadNexus">>
                     ELSE <<"loadNexus", "loadNewick">>
    /\ (file.fmt = "garbage" /\ Len(tried) = 2) => pc = "exit1"
    /\ pc \in {"start", "nexus_failed", "exit1"} =>
          (tree = NoTree /\ NothingProduced)
    /\ pc = "exit1" => ~ENABLED Next

\* Both loaders have failed and the run has ended.
C7_Witness ==
    /\ pc = "exit1"
    /\ tried = <<"loadNexus", "loadNewick">>
    /\ file.fmt = "garbage"

\* C8 as stated: with a negative branch length in the tree no absoluteTime is
\* set, no later pass runs and nothing is drawn or saved.
C8_NegativeLengthAborts ==
    (tree # NoTree /\ ~Valid(tree)) => NothingProduced

RECURSIVE AncestorSet(_, _)
AncestorSet(t, k) ==
    IF t.parent[k] = 0 THEN {}
    ELSE {t.parent[k]} \cup AncestorSet(t, t.parent[k])

\* k and everything below it.
Subtree(t, k) == {c \in 1..t.n : c = k \/ k \in AncestorSet(t, c)}

\* The leaves at or below k.
DescLeaves(t, k) == Subtree(t, k) \cap LeafSet(t)

\* The lowest and the highest y in the subtree of k.
SubtreeLow(k) == Min({y[c] : c \in Subtree(tree, k)})

SubtreeHigh(k) == Max({y[c] : c \in Subtree(tree, k)})

\* C11: after the layout no branches cross: the slots of the leaves below an
\* internal node are consecutive (no other leaf lies between two of them),
\* the y intervals covered by two sibling subtrees are disjoint, and every
\* internal node's y lies within the y of its immediate children, which for a
\* node with a connector is the span of that connector.
C11_NoCrossingBranches ==
    /\ LaidOut =>
          \A k \in InternalSet(tree) :
              /\ \A l \in LeafSet(tree) \ DescLeaves(tree, k) :
                    \/ y[l] < Min({y[d] : d \in DescLeaves(tree, k)})
                    \/ y[l] > Max({y[d] : d \in DescLeaves(tree, k)})
              /\ \A a, b \in ChildSet(tree, k) :
                    a # b => \/ SubtreeHigh(a) < SubtreeLow(b)
                             \/ SubtreeHigh(b) < SubtreeLow(a)
              /\ Min({y[c] : c \in ChildSet(tree, k)}) <= y[k]
              /\ y[k] <= Max({y[c] : c \in ChildSet(tree, k)})
    /\ Drawn =>
          \A i \in DOMAIN segments :
              segments[i].kind = "connector" =>
                  /\ segments[i].y[1] <= y[segments[i].node]
                  /\ y[segments[i].node] <= segments[i].y[2]

\* A drawn tree in which a clade of two leaves below the root is listed in
\* tree.Objects with a leaf of another clade between them.
C11_Witness ==
    /\ Drawn
    /\ \E k \in InternalSet(tree) \ {1} :
          \E a, b \in DescLeaves(tree, k) :
              \E l \in LeafSet(tree) \ DescLeaves(tree, k) : a < l /\ l < b

====
